---- MODULE Spec2Model ----
(***************************************************************************)
(* Screen magnifier of the crosshair overlay: the capture thread           *)
(* (CaptureThread), the magnifier window (MagnifierWindow), the launch     *)
(* modes of magnifier.py (--ipc, --no-hotkey, local hotkeys) and the       *)
(* MagnifierOverlay wrapper used by a host application.                    *)
(*                                                                         *)
(* Durations are in milliseconds.  The code compares floating-point        *)
(* seconds (elapsed < 1.0 / fps, avg > 1.0 / 30); the model compares the   *)
(* same quantities exactly, cross-multiplied: elapsed * fps < 1000.        *)
(***************************************************************************)
EXTENDS Integers, Sequences, FiniteSets, TLC

VARIABLES
    mode,           \* launch mode of the process: "ipc", "hotkey", "nohotkey",
                    \* or "overlay": a host application using MagnifierOverlay
    target_fps,     \* CaptureThread.target_fps
    monitors,       \* sct.monitors: monitors[1] is Python's monitors[0], the
                    \* whole virtual screen; the physical monitors follow
    monitor_index,  \* config['magnifier']['monitor_index']
    capture_size,   \* CaptureThread.capture_size
    display_size,   \* CaptureThread.display_size, MagnifierWindow.display_size
    offset_x,       \* MagnifierWindow.offset_x
    offset_y,       \* MagnifierWindow.offset_y
    use_cuda,       \* CaptureThread.use_cuda
    geometry,       \* window geometry set by _position_window at construction
    capture_region, \* run(): capture_region of the loop instance
    cuda_available, \* run(): cuda_available of the loop instance
    current_fps,    \* CaptureThread.current_fps
    frame_times,    \* CaptureThread.frame_times
    elapsed,        \* run(): duration of the iteration in progress
    steady,         \* history: iterations so far, while each lasted 40 ms; -1 after
    running,        \* CaptureThread.running
    thr,            \* QThread state: "idle", "starting", "top", "iter", "pace"
    visible,        \* MagnifierWindow.isVisible()
    pixmap,         \* content shown by the label ("none" before the first frame)
    lastFrame,      \* history: image of the frame last handed to on_frame
    click_through_applied,  \* MagnifierWindow._click_through_applied
    uiQueue,        \* events posted to the UI thread, in posting order
    config_file,    \* config.json as the process finds it at start
    ui,             \* UI thread: "boot" (before load_config), "main", "loop",
                    \* "wait" (inside stop()),
                    \* "exited"; "aborted" once the process was aborted
    uiOp,           \* the slot the UI thread is inside while it waits in stop()
    exitReq,        \* exit flag of the running event loop, set by app.quit()
    inThread,       \* ipc_reader / key listener: "on", "closing", "done"
    inputLog,       \* history: lines as ipc_reader holds them after strip(),
                    \* keys seen by on_press
    execLog,        \* history: window operations begun, in order, each with
                    \* the visibility it found
    ctxLog,         \* history: the thread each of them was executed on
    timers,         \* single-shot timers pending in the UI thread, in firing order
    ctLog,          \* history: click-through events, in order
    window,         \* the MagnifierWindow is there (MagnifierOverlay.window)
    faults,         \* history: the iterations of run() that raised
    \* CrosshairApp, the process that owns the magnifier (crosshair_gui.py)
    magnifier_process,  \* the child handle: a child, or NoChild for None
    magnifier_visible,  \* what the owner believes the child's window to be
    magnifier_status,   \* the status line set by _update_magnifier_ui
    restart_timers,     \* root.after callbacks of the restart that are pending
    restart_timer_set,  \* self._magnifier_restart_timer holds an id
    child_state,        \* per child: "none", "running", "exited", "terminated"
    child_cmds,         \* per child: the commands written to its stdin
    pc,                 \* per thread: where it is inside the owner's code
    tk_job,             \* the handler the Tk thread is inside
    was_visible,        \* local of _restart_magnifier_debounced
    seen,               \* per thread: the magnifier_visible its toggle read
    spawn_result,       \* per thread: history, the Popen of its current
                        \* toggle or restart: "none", "ok", "failed"
    write_failed,       \* history: the last toggle ended in its except branch
    presses,            \* history: magnifier hotkey presses
    changes,            \* history: magnifier setting changes
    bursts,             \* history: changes that armed a timer with none pending
    restarts            \* history: timer callbacks run

ownVars == <<magnifier_process, magnifier_visible, magnifier_status,
             restart_timers, restart_timer_set, child_state, child_cmds, pc,
             tk_job, was_visible, seen, spawn_result, write_failed, presses,
             changes, bursts, restarts>>
cfgVars == <<mode, target_fps, monitors, monitor_index, capture_size,
             display_size, offset_x, offset_y, use_cuda, geometry,
             config_file>>
runVars == <<capture_region, cuda_available>>
ctVars  == <<timers, ctLog>>
logVars == <<execLog, ctxLog>>
fpsVars == <<current_fps, frame_times>>
itVars  == <<elapsed, steady, faults>>
winVars == <<visible, pixmap, lastFrame, click_through_applied>>
uiVars  == <<ui, uiOp>>
inVars  == <<inThread, inputLog>>

vars == <<mode, target_fps, monitors, monitor_index, capture_size,
          display_size, offset_x, offset_y, use_cuda, geometry,
          capture_region, cuda_available, current_fps, frame_times, elapsed, steady,
          running, thr, visible, pixmap, lastFrame, click_through_applied,
          uiQueue, ui,
          uiOp, exitReq, inThread, inputLog, execLog, ctxLog, timers, ctLog,
          window, faults, config_file,
          magnifier_process, magnifier_visible, magnifier_status,
          restart_timers, restart_timer_set, child_state, child_cmds, pc,
          tk_job, was_visible, seen, spawn_result, write_failed, presses,
          changes, bursts, restarts>>

\* the variables of the magnifier process
magVars == <<cfgVars, runVars, ctVars, logVars, fpsVars, itVars, winVars,
             uiVars, inVars, running, thr, uiQueue, exitReq, window>>

----------------------------------------------------------------------------
(* Program constants *)

MsPerSecond == 1000
MinFps == 15
FpsStep == 5
MaxFrameTimes == 10
SlowRate == 30
FastRate == 50
DefaultTargetFps == 60
DefaultCaptureSize == 150
DefaultDisplaySize == 300
DefaultMonitorIndex == 1

(* Bounds of the model *)

MaxQueue == 2
MaxSteady == 11
MaxInputs == 4
MaxFaults == 2
MaxChildren == 3
MaxPresses == 3
MaxChanges == 2

\* iteration durations (ms) the system load can produce
Durations == {10, 19, 40, 120}
\* the duration of the constant-load scenario
SteadyDurations == {40}
\* target_fps values of the configuration document
TargetFpsValues == {10, 15, 58, 60}
\* the controller in full: a target just above the floor and the largest
\* the owner's slider offers, under short and long iterations
AdaptTargetFpsValues == {17, 120}
AdaptDurations == {10, 70}
\* durations of the recovery scenario: one overload, then headroom
RecoveryDurations == {10, 19, 40}
\* durations of a lightly loaded system
QuietDurations == {10, 40}
\* durations of an idle system
IdleDurations == {10}
\* screen contents
Pixels == {"a"}
\* a QImage for which isNull() holds (QImage.copy() returns one when it
\* cannot allocate the copy)
NullImage == "null"
\* the images on_frame can be handed
AnyImages == {"a", "b", NullImage}
\* monitor lists mss can report: the virtual screen, then each monitor
OneMonitor ==
    << [left |-> 0, top |-> 0, width |-> 1920, height |-> 1080],
       [left |-> 0, top |-> 0, width |-> 1920, height |-> 1080] >>
TwoMonitors ==
    << [left |-> -1280, top |-> 0, width |-> 3200, height |-> 1080],
       [left |-> 0, top |-> 0, width |-> 1920, height |-> 1080],
       [left |-> -1280, top |-> 28, width |-> 1280, height |-> 1024] >>
MonitorLayouts == {OneMonitor, TwoMonitors}
\* monitor_index values of the configuration document
MonitorIndexValues == {1, 2, 3, 99}
\* offset_x and offset_y values of the configuration document
OffsetXValues == {0, 7}
OffsetYValues == {0, -3}
\* capture_size and display_size values of the configuration document
CaptureSizes == {150, 301}
DisplaySizes == {300, 201}
\* what cv2.cuda.getCudaEnabledDeviceCount() can do: -1 stands for raising
CudaDeviceCounts == {-1, 0, 1}
\* lines the owning process (or anyone) can write to stdin; "" is also
\* end-of-stream, and BadLine is one that readline() cannot decode
BadLine == "<undecodable>"
\* a line of blanks, and show with blanks around it
BlankLine == "   "
PaddedShow == " show "
Lines == {"show", "hide", "quit", "", "zoom", BlankLine, PaddedShow, BadLine}
\* str.strip(): the line without the white space at its ends (the newline is
\* left out of the lines here); of Lines only two have any
Strip(raw) ==
    IF raw = BlankLine THEN ""
    ELSE IF raw = PaddedShow THEN "show"
    ELSE raw
\* mutation: a final else in place of the elif, every other line quits
Command_ElseQuit(line) ==
    IF line = BadLine THEN "raise"
    ELSE IF line \in {"show", "hide"} THEN "invoke"
    ELSE "quit"
\* the branch of ipc_reader a stripped line takes: readline() raising goes to
\* the except, show and hide are invoked, quit and the empty line quit, and
\* no branch is there for anything else
Command(line) ==
    IF line = BadLine THEN "raise"
    ELSE IF line \in {"show", "hide"} THEN "invoke"
    ELSE IF line = "quit" \/ line = "" THEN "quit"
    ELSE "none"
\* keys the standalone listener can see
Keys == {"-", "esc", "x"}
\* calls a host application makes on its MagnifierOverlay
OverlayCalls == {"toggle", "show", "hide", "overlay_close"}

----------------------------------------------------------------------------
(* Helpers *)

RECURSIVE Sum(_)
Sum(s) == IF s = <<>> THEN 0 ELSE Head(s) + Sum(Tail(s))

Max(a, b) == IF a >= b THEN a ELSE b
Min(a, b) == IF a <= b THEN a ELSE b

----------------------------------------------------------------------------
(* Monitor, capture region and window position *)

\* mutation: the fallback is Python's monitors[0], the virtual screen
ResolveMonitor_FallbackAll(mons, idx) ==
    IF 0 <= idx /\ idx < Len(mons) THEN mons[idx + 1]
    ELSE IF -Len(mons) <= idx /\ idx < 0 THEN mons[Len(mons) + idx + 1]
    ELSE mons[1]

\* try: mon = sct.monitors[idx]  except IndexError: mon = sct.monitors[1]
\* (a Python list also takes the indices -len .. -1)
ResolveMonitor(mons, idx) ==
    IF 0 <= idx /\ idx < Len(mons) THEN mons[idx + 1]
    ELSE IF -Len(mons) <= idx /\ idx < 0 THEN mons[Len(mons) + idx + 1]
    ELSE mons[2]

\* capture_region of run() on monitor mon
RegionOn(mon, size) ==
    [left   |-> mon.left + (mon.width - size) \div 2,
     top    |-> mon.top + (mon.height - size) \div 2,
     width  |-> size,
     height |-> size]

CaptureRegion(mons, idx, size) == RegionOn(ResolveMonitor(mons, idx), size)

\* mutation: the top-left computed the way run() computes its region
GeometryOn_LikeRegion(mon, size, dx, dy) ==
    [x |-> mon.left + (mon.width - size) \div 2 + dx,
     y |-> mon.top + (mon.height - size) \div 2 + dy,
     width  |-> size,
     height |-> size]

\* geometry set by _position_window on monitor mon
GeometryOn(mon, size, dx, dy) ==
    [x |-> mon.left + mon.width \div 2 - size \div 2 + dx,
     y |-> mon.top + mon.height \div 2 - size \div 2 + dy,
     width  |-> size,
     height |-> size]

WindowGeometry(mons, idx, size, dx, dy) ==
    GeometryOn(ResolveMonitor(mons, idx), size, dx, dy)

\* capture_region before any loop instance has set it
NoRegion == [left |-> 0, top |-> 0, width |-> 0, height |-> 0]

\* cuda_available after the check at the start of run()
CudaCheck(use, count) == use /\ count > 0

\* shape of np.array(sct.grab(region))
Grab(region) == [w |-> region.width, h |-> region.height]

\* mutation: no resampling, the captured array goes on as it is
Resize_Identity(shape, size) == shape

\* shape of cv2.resize / cv2.cuda.resize(img, (size, size))
Resize(shape, size) == [w |-> size, h |-> size]

\* mutation: no except around the GPU path
ResizePath_NoExcept(avail, gpu_ok) ==
    IF avail THEN (IF gpu_ok THEN "gpu" ELSE "raised") ELSE "cpu"

\* which resize produced zoomed: the GPU path, cv2.resize in the except
\* branch after the GPU path raised, or cv2.resize in the else branch
ResizePath(avail, gpu_ok) ==
    IF avail THEN (IF gpu_ok THEN "gpu" ELSE "cpu_fallback") ELSE "cpu"

----------------------------------------------------------------------------
(* CaptureThread._adapt_fps *)

\* mutation: at ten entries the new one is dropped, not the oldest
PushFrameTime_KeepOldest(times, frame_time) ==
    IF Len(times) >= MaxFrameTimes THEN times ELSE Append(times, frame_time)

\* frame_times after append and pop(0)
PushFrameTime(times, frame_time) ==
    LET appended == Append(times, frame_time)
    IN  IF Len(appended) > MaxFrameTimes THEN Tail(appended) ELSE appended

\* avg_time > 1.0 / 30
TooSlow(times) == Sum(times) * SlowRate > MsPerSecond * Len(times)

\* avg_time < 1.0 / 50
FastEnough(times) == Sum(times) * FastRate < MsPerSecond * Len(times)

\* mutation: the increase without the test against target_fps
AdaptedFps_NoTargetTest(cur, target, times) ==
    IF TooSlow(times) THEN Max(MinFps, cur - FpsStep)
    ELSE IF FastEnough(times) THEN cur + FpsStep
    ELSE cur

\* mutation: the decrease without its floor
AdaptedFps_NoFloor(cur, target, times) ==
    IF TooSlow(times) THEN cur - FpsStep
    ELSE IF FastEnough(times) /\ cur < target THEN Min(target, cur + FpsStep)
    ELSE cur

\* current_fps after _adapt_fps, given the updated frame_times
AdaptedFps(cur, target, times) ==
    IF TooSlow(times) THEN Max(MinFps, cur - FpsStep)
    ELSE IF FastEnough(times) /\ cur < target THEN Min(target, cur + FpsStep)
    ELSE cur

\* mutation: elapsed <= target_time
InTime_Inclusive(e, cur) == e * cur <= MsPerSecond

\* elapsed < target_time, with target_time = 1.0 / current_fps
InTime(e, cur) == e * cur < MsPerSecond

----------------------------------------------------------------------------
(* The process and its event queue *)

\* the process has not left app.exec_() and sys.exit()
Alive == ui \notin {"exited", "aborted"}

\* entry of execLog for operation o, begun now
Op(o) == [op |-> o, was |-> visible]

\* a queued slot invocation
Event(e) == [ev |-> e, img |-> "none", w |-> 0, h |-> 0, via |-> "none"]
\* a queued frame_ready(qimg): content, width and height of qimg, and the
\* resize path that produced it
FrameEvent(img, shape, via) ==
    [ev |-> "frame", img |-> img, w |-> shape.w, h |-> shape.h, via |-> via]

\* the UI thread is in its event loop and the next posted event is e
Next_(e) == ui = "loop" /\ uiQueue # <<>> /\ Head(uiQueue).ev = e

\* mutation: the invocation is put in front of the queued ones
Post_Front(queue, e) == <<e>> \o queue

\* QMetaObject.invokeMethod(..., QueuedConnection) and a cross-thread emit:
\* the event is posted behind those already queued
Post(queue, e) == Append(queue, e)

\* QCoreApplication.quit(): exits the event loop that is running; before
\* app.exec_() there is none, and exec_() clears the request
Quit(flag) == IF ui \in {"loop", "wait"} THEN TRUE ELSE flag

----------------------------------------------------------------------------
(* CaptureThread *)

\* mutation: start() begins run() anew whatever the thread is doing
Start_Restart(t) == "starting"

\* QThread.start(): does nothing while the thread is running
Start(t) == IF t = "idle" THEN "starting" ELSE t

\* QThread.isRunning(): from start() until run() has returned
IsRunning(t) == t # "idle"

\* self.wait(2000) can give up only while run() is inside an iteration (a grab
\* or resize that takes longer) or will go on to another one; thread start-up
\* and the flag test take no such time
WaitCanTimeOut == thr \in {"iter", "pace"} \/ (thr = "top" /\ running)

\* mutation: run() begins with the controller as __init__ sets it
ControllerAtRun_Reset(fps, times) == [fps |-> target_fps, times |-> <<>>]

\* the controller run() begins with: current_fps and frame_times are assigned
\* in __init__ and in _adapt_fps only, so run() finds what the object holds
ControllerAtRun(fps, times) == [fps |-> fps, times |-> times]

\* run() begins: self.running = True, the CUDA check, monitor and region set up
ThreadBegin ==
    /\ Alive
    /\ thr = "starting"
    /\ thr' = "top"
    /\ running' = TRUE
    /\ current_fps' = ControllerAtRun(current_fps, frame_times).fps
    /\ frame_times' = ControllerAtRun(current_fps, frame_times).times
    /\ \E count \in CudaDeviceCounts :
         cuda_available' = CudaCheck(use_cuda, count)
    /\ capture_region' = CaptureRegion(monitors, monitor_index, capture_size)
    /\ UNCHANGED <<ownVars, cfgVars, ctVars, window, itVars, winVars,
                   uiQueue, uiVars, exitReq, inVars, logVars>>

\* while self.running:
LoopCheck ==
    /\ Alive
    /\ thr = "top"
    /\ thr' = IF running THEN "iter" ELSE "idle"
    /\ UNCHANGED <<ownVars, cfgVars, runVars, ctVars, window, fpsVars, itVars,
                   running, winVars, uiQueue, uiVars, exitReq, inVars, logVars>>

\* grab, resize (GPU or CPU), convert, frame_ready.emit(qimg) (queued to the
\* UI thread); elapsed measured
Iterate(D, P) ==
    /\ Alive
    /\ thr = "iter"
    /\ Len(uiQueue) < MaxQueue
    /\ \E e \in D, img \in P, gpu_ok \in BOOLEAN :
         LET via == ResizePath(cuda_available, gpu_ok)
             shape == Resize(Grab(capture_region), display_size)
         IN  IF via = "raised"
             THEN \* the exception leaves run(): the thread ends
                  /\ thr' = "idle"
                  /\ UNCHANGED <<elapsed, steady, uiQueue>>
             ELSE /\ elapsed' = e
                  /\ uiQueue' = Post(uiQueue, FrameEvent(img, shape, via))
                  /\ steady' = IF steady >= 0 /\ e \in SteadyDurations
                               THEN Min(MaxSteady, steady + 1) ELSE -1
                  /\ thr' = "pace"
    /\ UNCHANGED <<ownVars, cfgVars, runVars, ctVars, window, fpsVars, running,
                   winVars, uiVars, exitReq, inVars, logVars, faults>>

\* what an exception that leaves run() does: the thread ends and the process
\* goes on, or PyQt5 (5.5 and later, no sys.excepthook installed) reports it
\* with qFatal() and the process is aborted
UnhandledOutcomes == {"thread_ends", "abort"}

\* an iteration raises outside the try of the GPU resize (sct.grab, np.array,
\* cv2.resize, cv2.cvtColor, QImage): nothing in run() catches it
iteration_error ==
    /\ Alive
    /\ thr = "iter"
    /\ faults < MaxFaults
    /\ faults' = faults + 1
    /\ thr' = "idle"
    /\ \E outcome \in UnhandledOutcomes :
         ui' = IF outcome = "abort" THEN "aborted" ELSE ui
    /\ UNCHANGED <<ownVars, cfgVars, runVars, ctVars, window, fpsVars, elapsed,
                   steady, running, winVars, uiQueue, uiOp, exitReq, inVars,
                   logVars>>

\* FPS control: sleep the remainder, or _adapt_fps(elapsed)
Pace ==
    /\ Alive
    /\ thr = "pace"
    /\ thr' = "top"
    /\ IF InTime(elapsed, current_fps)
       THEN UNCHANGED fpsVars
       ELSE LET times == PushFrameTime(frame_times, elapsed)
            IN  /\ frame_times' = times
                /\ current_fps' = AdaptedFps(current_fps, target_fps, times)
    /\ UNCHANGED <<ownVars, cfgVars, runVars, ctVars, window, itVars, running,
                   winVars, uiQueue, uiVars, exitReq, inVars, logVars>>

----------------------------------------------------------------------------
(* MagnifierWindow *)

\* mutation: setPixmap without the isNull test
Displayed_NoNullTest(cur, img) == img

\* content of the label after on_frame(img): if not qimg.isNull(): setPixmap
Displayed(cur, img) == IF img = NullImage THEN cur ELSE img

\* on_frame, run by the event loop for a queued frame_ready
on_frame ==
    /\ Next_("frame")
    /\ pixmap' = Displayed(pixmap, Head(uiQueue).img)
    /\ lastFrame' = Head(uiQueue).img
    /\ uiQueue' = Tail(uiQueue)
    /\ UNCHANGED <<ownVars, cfgVars, runVars, ctVars, window, fpsVars, itVars,
                   running, thr, visible, click_through_applied, uiVars,
                   exitReq, inVars, logVars>>

\* mutation: the single shot without its flag test
ClickThroughDue_Always(applied) == TRUE

\* if not self._click_through_applied
ClickThroughDue(applied) == ~applied

\* body of show_magnifier, executed on thread ctx
ShowBody(ctx) ==
    /\ execLog' = Append(execLog, Op("show"))
    /\ ctxLog' = Append(ctxLog, ctx)
    /\ IF ~visible
       THEN /\ thr' = (IF ~IsRunning(thr) THEN Start(thr) ELSE thr)
            /\ visible' = TRUE
            /\ click_through_applied' = TRUE
            /\ IF ClickThroughDue(click_through_applied)
               THEN \* QTimer.singleShot(100, self._set_click_through)
                    /\ timers' = Append(timers, "_set_click_through")
                    /\ ctLog' = Append(ctLog, "scheduled")
               ELSE UNCHANGED ctVars
       ELSE UNCHANGED <<thr, visible, click_through_applied, ctVars>>

\* slot show_magnifier, invoked through the event queue
show_magnifier ==
    /\ Next_("show")
    /\ window
    /\ uiQueue' = Tail(uiQueue)
    /\ ShowBody("ui")
    /\ UNCHANGED <<ownVars, cfgVars, runVars, window, fpsVars, itVars, running,
                   pixmap, lastFrame, uiVars, exitReq, inVars>>

\* slot hide_magnifier up to the wait inside capture_thread.stop()
hide_magnifier ==
    /\ Next_("hide")
    /\ window
    /\ uiQueue' = Tail(uiQueue)
    /\ execLog' = Append(execLog, Op("hide"))
    /\ ctxLog' = Append(ctxLog, "ui")
    /\ IF visible
       THEN /\ running' = FALSE
            /\ ui' = "wait"
            /\ uiOp' = "hide"
       ELSE UNCHANGED <<running, uiVars>>
    /\ UNCHANGED <<ownVars, cfgVars, runVars, ctVars, window, fpsVars, itVars,
                   thr, winVars, exitReq, inVars>>

\* slot toggle: up to the wait inside stop(), or the whole show branch
toggle ==
    /\ Next_("toggle")
    /\ window
    /\ uiQueue' = Tail(uiQueue)
    /\ execLog' = Append(execLog, Op("toggle"))
    /\ ctxLog' = Append(ctxLog, "ui")
    /\ IF visible
       THEN /\ running' = FALSE
            /\ ui' = "wait"
            /\ uiOp' = "toggle"
            /\ UNCHANGED <<thr, visible>>
       ELSE /\ thr' = Start(thr)
            /\ visible' = TRUE
            /\ UNCHANGED <<running, uiVars>>
    /\ UNCHANGED <<ownVars, cfgVars, runVars, ctVars, window, fpsVars, itVars,
                   pixmap, lastFrame, click_through_applied, exitReq, inVars>>

\* stop(): self.wait(2000) returns because run() has returned; then
\* self.hide(), or super().close() and, in MagnifierOverlay.close,
\* self.window = None
StopJoined ==
    /\ ui = "wait"
    /\ ~IsRunning(thr)
    /\ visible' = FALSE
    /\ window' = (window /\ uiOp # "overlay_close")
    /\ ui' = "loop"
    /\ uiOp' = "none"
    /\ UNCHANGED <<ownVars, cfgVars, runVars, ctVars, fpsVars, itVars, running,
                   thr, pixmap, lastFrame, click_through_applied, uiQueue,
                   exitReq, inVars, logVars>>

\* stop(): self.wait(2000) gives up while run() has not returned; then as above
StopTimedOut ==
    /\ ui = "wait"
    /\ WaitCanTimeOut
    /\ visible' = FALSE
    /\ window' = (window /\ uiOp # "overlay_close")
    /\ ui' = "loop"
    /\ uiOp' = "none"
    /\ UNCHANGED <<ownVars, cfgVars, runVars, ctVars, fpsVars, itVars, running,
                   thr, pixmap, lastFrame, click_through_applied, uiQueue,
                   exitReq, inVars, logVars>>

\* _set_click_through, run by the 100 ms single shot (on win32, where the
\* styling exists): window handle taken, click-through style and capture
\* exclusion applied, QTimer.singleShot(500, self._apply_click_through_style)
set_click_through ==
    /\ ui = "loop"
    /\ timers # <<>>
    /\ Head(timers) = "_set_click_through"
    /\ timers' = Append(Tail(timers), "_apply_click_through_style")
    /\ ctLog' = Append(ctLog, "applied")
    /\ UNCHANGED <<ownVars, cfgVars, runVars, window, fpsVars, itVars, running,
                   thr, winVars, uiQueue, uiVars, exitReq, inVars, logVars>>

\* _apply_click_through_style, run by the 500 ms single shot
apply_click_through_style ==
    /\ ui = "loop"
    /\ timers # <<>>
    /\ Head(timers) = "_apply_click_through_style"
    /\ timers' = Tail(timers)
    /\ ctLog' = Append(ctLog, "reapplied")
    /\ UNCHANGED <<ownVars, cfgVars, runVars, window, fpsVars, itVars, running,
                   thr, winVars, uiQueue, uiVars, exitReq, inVars, logVars>>

----------------------------------------------------------------------------
(* MagnifierOverlay, used by a host application from its UI thread *)

\* MagnifierOverlay.close up to the wait inside stop(): window.close() if
\* there is a window
overlay_close ==
    /\ Next_("overlay_close")
    /\ uiQueue' = Tail(uiQueue)
    /\ IF window
       THEN /\ execLog' = Append(execLog, Op("close"))
            /\ ctxLog' = Append(ctxLog, "ui")
            /\ running' = FALSE
            /\ ui' = "wait"
            /\ uiOp' = "overlay_close"
       ELSE UNCHANGED <<logVars, running, uiVars>>
    /\ UNCHANGED <<ownVars, cfgVars, runVars, ctVars, window, fpsVars, itVars,
                   thr, winVars, exitReq, inVars>>

\* toggle_visibility, show, hide of MagnifierOverlay once window is None
overlay_no_window ==
    /\ ui = "loop"
    /\ ~window
    /\ uiQueue # <<>>
    /\ Head(uiQueue).ev \in {"show", "hide", "toggle"}
    /\ uiQueue' = Tail(uiQueue)
    /\ UNCHANGED <<ownVars, cfgVars, runVars, ctVars, window, fpsVars, itVars,
                   running, thr, winVars, uiVars, exitReq, inVars, logVars>>

\* create_window() has been called by the host, whose event loop runs
MainOverlay ==
    /\ mode = "overlay"
    /\ ui = "main"
    /\ ui' = "loop"
    /\ UNCHANGED <<ownVars, cfgVars, runVars, ctVars, window, fpsVars, itVars,
                   running, thr, winVars, uiQueue, uiOp, exitReq, inVars,
                   logVars>>

\* an event of the host whose handler calls toggle_visibility, show, hide
\* or close of the MagnifierOverlay
overlay_call ==
    /\ Alive
    /\ mode = "overlay"
    /\ ui # "main"
    /\ Len(inputLog) < MaxInputs
    /\ Len(uiQueue) < MaxQueue
    /\ \E call \in OverlayCalls :
         /\ inputLog' = Append(inputLog, call)
         /\ uiQueue' = Append(uiQueue, Event(call))
    /\ UNCHANGED <<ownVars, cfgVars, runVars, ctVars, window, fpsVars, itVars,
                   running, thr, winVars, uiVars, exitReq, inThread, logVars>>

----------------------------------------------------------------------------
(* load_config *)

\* the fields of the [magnifier] section the process reads
FieldNames == {"capture_size", "display_size", "target_fps", "offset_x",
               "offset_y", "use_cuda", "monitor_index"}

\* default_config['magnifier']
DefaultSection ==
    [capture_size  |-> DefaultCaptureSize,
     display_size  |-> DefaultDisplaySize,
     target_fps    |-> DefaultTargetFps,
     offset_x      |-> 0,
     offset_y      |-> 0,
     use_cuda      |-> FALSE,
     monitor_index |-> DefaultMonitorIndex]

\* the defaults of mag_config.get(...) in the two constructors
CtorDefault ==
    [capture_size  |-> 200,
     display_size  |-> 300,
     target_fps    |-> 60,
     offset_x      |-> 0,
     offset_y      |-> 0,
     use_cuda      |-> FALSE,
     monitor_index |-> 1]

\* the value a config.json gives to a field it holds
FileValue ==
    [capture_size  |-> 301,
     display_size  |-> 201,
     target_fps    |-> 58,
     offset_x      |-> 7,
     offset_y      |-> -3,
     use_cuda      |-> TRUE,
     monitor_index |-> 2]

\* config.json: missing, unreadable (open or decoding fails), unparseable
\* (json.load raises), a JSON number (the membership test raises), an object
\* without 'magnifier', or an object whose 'magnifier' object holds the
\* given fields
ConfigFiles ==
    [kind : {"missing", "unreadable", "unparseable", "number", "no_section"},
     fields : {{}}]
    \cup [kind : {"section"}, fields : SUBSET FieldNames]

NoFile == [kind |-> "missing", fields |-> {}]

\* mutation: the section of the file taken in place of the defaults
LoadConfig_Replace(file) ==
    IF file.kind = "section"
    THEN [f \in file.fields |-> FileValue[f]]
    ELSE DefaultSection

\* load_config()['magnifier']: every exception inside the try returns the
\* defaults; a section updates them
LoadConfig(file) ==
    IF file.kind = "section"
    THEN [f \in FieldNames |->
             IF f \in file.fields THEN FileValue[f] ELSE DefaultSection[f]]
    ELSE DefaultSection

\* mag_config.get(key, default)
Get(cfg, key) == IF key \in DOMAIN cfg THEN cfg[key] ELSE CtorDefault[key]

\* the window before _position_window
NoGeometry == [x |-> 0, y |-> 0, width |-> 0, height |-> 0]

\* config = load_config(); MagnifierWindow(config), which constructs its
\* CaptureThread and positions itself
load_config ==
    /\ ui = "boot"
    /\ LET cfg == LoadConfig(config_file)
       IN  /\ capture_size' = Get(cfg, "capture_size")
           /\ display_size' = Get(cfg, "display_size")
           /\ target_fps' = Get(cfg, "target_fps")
           /\ offset_x' = Get(cfg, "offset_x")
           /\ offset_y' = Get(cfg, "offset_y")
           /\ use_cuda' = Get(cfg, "use_cuda")
           /\ monitor_index' = Get(cfg, "monitor_index")
    /\ current_fps' = target_fps'
    /\ geometry' = WindowGeometry(monitors, monitor_index', display_size',
                                  offset_x', offset_y')
    /\ ui' = "main"
    /\ UNCHANGED <<ownVars, mode, monitors, config_file, runVars, ctVars,
                   window, frame_times, itVars, running, thr, winVars, uiQueue,
                   uiOp, exitReq, inVars, logVars>>

----------------------------------------------------------------------------
(* __main__ *)

\* --ipc: ipc_thread.start(); app.exec_()
MainIpc ==
    /\ mode = "ipc"
    /\ ui = "main"
    /\ ui' = "loop"
    /\ UNCHANGED <<ownVars, cfgVars, runVars, ctVars, window, fpsVars, itVars,
                   running, thr, winVars, uiQueue, uiOp, exitReq, inVars,
                   logVars>>

\* --no-hotkey and hotkey mode: magnifier.show_magnifier(); app.exec_()
MainShow ==
    /\ mode \in {"hotkey", "nohotkey"}
    /\ ui = "main"
    /\ ShowBody("ui")
    /\ ui' = "loop"
    /\ UNCHANGED <<ownVars, cfgVars, runVars, window, fpsVars, itVars, running,
                   pixmap, lastFrame, uiQueue, uiOp, exitReq, inVars>>

\* app.exec_() returns once the exit flag is seen; sys.exit() ends the process.
\* Posted events not yet handled are dropped.
ExitLoop ==
    /\ ui = "loop"
    /\ exitReq
    /\ ui' = "exited"
    /\ UNCHANGED <<ownVars, cfgVars, runVars, ctVars, window, fpsVars, itVars,
                   running, thr, winVars, uiQueue, uiOp, exitReq, inVars,
                   logVars>>

\* ipc_reader: one pass of its loop
ipc_reader ==
    /\ Alive
    /\ mode = "ipc"
    /\ inThread = "on"
    /\ Len(inputLog) < MaxInputs
    /\ \E raw \in Lines :
         LET line == Strip(raw)
         IN  /\ inputLog' = Append(inputLog, line)
             /\ IF Command(line) = "invoke"
                THEN /\ Len(uiQueue) < MaxQueue
                     /\ uiQueue' = Post(uiQueue, Event(line))
                     /\ UNCHANGED <<exitReq, inThread>>
                ELSE IF Command(line) = "quit"
                THEN /\ exitReq' = Quit(exitReq)
                     /\ inThread' = "done"
                     /\ UNCHANGED uiQueue
                ELSE IF Command(line) = "raise"
                THEN /\ inThread' = "done"          \* except: break
                     /\ UNCHANGED <<exitReq, uiQueue>>
                ELSE UNCHANGED <<exitReq, inThread, uiQueue>>
    /\ UNCHANGED <<ownVars, cfgVars, runVars, ctVars, window, fpsVars, itVars,
                   running, thr, winVars, uiVars, logVars>>

\* on_press of the standalone listener: '-' queues toggle; ESC calls
\* magnifier.close() on the listener thread, here up to the wait inside stop()
on_press ==
    /\ Alive
    /\ mode = "hotkey"
    /\ inThread = "on"
    /\ Len(inputLog) < MaxInputs
    /\ \E key \in Keys :
         /\ inputLog' = Append(inputLog, key)
         /\ IF key = "-"
            THEN /\ Len(uiQueue) < MaxQueue
                 /\ uiQueue' = Post(uiQueue, Event("toggle"))
                 /\ UNCHANGED <<running, inThread, logVars>>
            ELSE IF key = "esc"
            THEN /\ running' = FALSE
                 /\ inThread' = "closing"
                 /\ execLog' = Append(execLog, Op("close"))
                 /\ ctxLog' = Append(ctxLog, "listener")
                 /\ UNCHANGED uiQueue
            ELSE UNCHANGED <<running, inThread, logVars, uiQueue>>
    /\ UNCHANGED <<ownVars, cfgVars, runVars, ctVars, window, fpsVars, itVars,
                   thr, winVars, uiVars, exitReq>>

\* on_press, ESC: the wait inside stop() ends (joined or timed out),
\* super().close() hides the window, app.quit(), the listener returns False
on_press_esc_end ==
    /\ Alive
    /\ inThread = "closing"
    /\ ~IsRunning(thr) \/ WaitCanTimeOut
    /\ visible' = FALSE
    /\ exitReq' = Quit(exitReq)
    /\ inThread' = "done"
    /\ UNCHANGED <<ownVars, cfgVars, runVars, ctVars, window, fpsVars, itVars,
                   running, thr, pixmap, lastFrame, click_through_applied,
                   uiQueue, uiVars, inputLog, logVars>>

----------------------------------------------------------------------------
(* CrosshairApp: the owner of the magnifier process (crosshair_gui.py).
   toggle_magnifier is called by the hotkey listeners on their own thread;
   on_magnifier_change, the restart callback and on_closing run on the Tk
   thread. Nothing locks magnifier_process and magnifier_visible: a thread
   can be overtaken wherever it calls out of the interpreter (Popen, the
   pipe, wait, terminate) and between two assignments to them. *)

Threads == {"tk", "listener"}
NoChild == 0
Children == 1..MaxChildren

\* the children spawned so far
Spawned == {c \in Children : child_state[c] # "none"}

\* _update_magnifier_ui
Status(handle, vis) ==
    IF handle = NoChild THEN "not_running"
    ELSE IF vis THEN "visible" ELSE "hidden"

\* a write and flush on the child's stdin succeeds while the child runs
CanWrite(handle) == handle # NoChild /\ child_state[handle] = "running"

\* a thread at position p goes to position q
Goto(t, q) == pc' = [pc EXCEPT ![t] = q]

\* the thread returns from the handler it is in
Return(t) ==
    /\ Goto(t, "idle")
    /\ tk_job' = IF t = "tk" THEN "none" ELSE tk_job

\* the hotkey listener sees the magnifier hotkey: toggle_magnifier()
key_press ==
    /\ pc["listener"] = "idle"
    /\ tk_job # "close"
    /\ pc["tk"] # "closed"
    /\ presses < MaxPresses
    /\ presses' = presses + 1
    /\ Goto("listener", "tg_check")
    /\ UNCHANGED <<magVars, magnifier_process, magnifier_visible,
                   magnifier_status, restart_timers, restart_timer_set,
                   child_state, child_cmds, tk_job, was_visible, seen,
                   spawn_result, write_failed, changes, bursts, restarts>>

\* toggle_magnifier: if not self.magnifier_process: start_magnifier(), whose
\* first statement is self.magnifier_visible = False
tg_check(t) ==
    /\ pc[t] = "tg_check"
    /\ IF magnifier_process = NoChild
       THEN /\ magnifier_visible' = FALSE
            /\ Goto(t, "tg_popen")
       ELSE /\ Goto(t, "tg_write")
            /\ UNCHANGED magnifier_visible
    /\ spawn_result' = [spawn_result EXCEPT ![t] = "none"]
    /\ write_failed' = FALSE
    /\ UNCHANGED <<magVars, magnifier_process, magnifier_status, restart_timers,
                   restart_timer_set, child_state, child_cmds, tk_job,
                   was_visible, seen, presses, changes, bursts, restarts>>

\* start_magnifier: subprocess.Popen succeeds or raises; the handle and the
\* status are set
Popen(t, next) ==
    /\ \/ /\ Spawned # Children
          /\ LET c == CHOOSE c \in Children :
                          /\ c \notin Spawned
                          /\ \A d \in Children : d < c => d \in Spawned
             IN  /\ child_state' = [child_state EXCEPT ![c] = "running"]
                 /\ magnifier_process' = c
                 /\ magnifier_status' = Status(c, magnifier_visible)
          /\ spawn_result' = [spawn_result EXCEPT ![t] = "ok"]
       \/ /\ magnifier_process' = NoChild
          /\ magnifier_status' = Status(NoChild, magnifier_visible)
          /\ spawn_result' = [spawn_result EXCEPT ![t] = "failed"]
          /\ UNCHANGED child_state
    /\ Goto(t, next)

\* toggle_magnifier, inside start_magnifier
tg_popen(t) ==
    /\ pc[t] = "tg_popen"
    /\ Popen(t, "tg_recheck")
    /\ UNCHANGED <<magVars, magnifier_visible, restart_timers,
                   restart_timer_set, child_cmds, tk_job, was_visible, seen,
                   write_failed, presses, changes, bursts, restarts>>

\* toggle_magnifier: if not self.magnifier_process: return
tg_recheck(t) ==
    /\ pc[t] = "tg_recheck"
    /\ IF magnifier_process = NoChild
       THEN Return(t)
       ELSE Goto(t, "tg_write") /\ UNCHANGED tk_job
    /\ UNCHANGED <<magVars, magnifier_process, magnifier_visible,
                   magnifier_status, restart_timers, restart_timer_set,
                   child_state, child_cmds, was_visible, seen, spawn_result,
                   write_failed, presses, changes, bursts, restarts>>

\* toggle_magnifier: the command chosen by magnifier_visible is written to
\* self.magnifier_process.stdin and flushed; with no handle or a dead child
\* this raises
tg_write(t) ==
    /\ pc[t] = "tg_write"
    /\ IF CanWrite(magnifier_process)
       THEN /\ child_cmds' =
                 [child_cmds EXCEPT ![magnifier_process] =
                     Append(@, IF magnifier_visible THEN "hide" ELSE "show")]
            /\ seen' = [seen EXCEPT ![t] = magnifier_visible]
            /\ Goto(t, "tg_set")
       ELSE /\ Goto(t, "tg_except")
            /\ UNCHANGED <<child_cmds, seen>>
    /\ UNCHANGED <<magVars, magnifier_process, magnifier_visible,
                   magnifier_status, restart_timers, restart_timer_set,
                   child_state, tk_job, was_visible, spawn_result, write_failed,
                   presses, changes, bursts, restarts>>

\* toggle_magnifier: self.magnifier_visible = not what was read;
\* _update_magnifier_ui()
tg_set(t) ==
    /\ pc[t] = "tg_set"
    /\ magnifier_visible' = ~seen[t]
    /\ magnifier_status' = Status(magnifier_process, ~seen[t])
    /\ Return(t)
    /\ UNCHANGED <<magVars, magnifier_process, restart_timers,
                   restart_timer_set, child_state, child_cmds, was_visible,
                   seen, spawn_result, write_failed, presses, changes, bursts,
                   restarts>>

\* toggle_magnifier: except Exception: self.magnifier_process = None;
\* _update_magnifier_ui()
tg_except(t) ==
    /\ pc[t] = "tg_except"
    /\ magnifier_process' = NoChild
    /\ magnifier_status' = Status(NoChild, magnifier_visible)
    /\ write_failed' = TRUE
    /\ Return(t)
    /\ UNCHANGED <<magVars, magnifier_visible, restart_timers,
                   restart_timer_set, child_state, child_cmds, was_visible,
                   seen, spawn_result, presses, changes, bursts, restarts>>

\* root.after_cancel(self._magnifier_restart_timer) when the attribute is set
Cancelled(n, set) == IF set /\ n > 0 THEN n - 1 ELSE n

\* on_magnifier_change: the configuration is saved; with a child the pending
\* restart is cancelled and a new one armed 500 ms ahead
on_magnifier_change ==
    /\ pc["tk"] = "idle"
    /\ changes < MaxChanges
    /\ changes' = changes + 1
    /\ IF magnifier_process # NoChild
       THEN /\ restart_timers' =
                 Cancelled(restart_timers, restart_timer_set) + 1
            /\ restart_timer_set' = TRUE
            /\ bursts' = IF restart_timers = 0 THEN bursts + 1 ELSE bursts
       ELSE UNCHANGED <<restart_timers, restart_timer_set, bursts>>
    /\ UNCHANGED <<magVars, magnifier_process, magnifier_visible,
                   magnifier_status, child_state, child_cmds, pc, tk_job,
                   was_visible, seen, spawn_result, write_failed, presses,
                   restarts>>

\* _restart_magnifier_debounced, run by Tk 500 ms after the last change: with
\* a child, was_visible is read and stop_magnifier() entered
restart_fires ==
    /\ pc["tk"] = "idle"
    /\ restart_timers > 0
    /\ restart_timers' = restart_timers - 1
    /\ restart_timer_set' = FALSE
    /\ restarts' = restarts + 1
    /\ spawn_result' = [spawn_result EXCEPT !["tk"] = "none"]
    /\ IF magnifier_process # NoChild
       THEN /\ was_visible' = magnifier_visible
            /\ tk_job' = "restart"
            /\ Goto("tk", "st_check")
       ELSE UNCHANGED <<was_visible, tk_job, pc>>
    /\ UNCHANGED <<magVars, magnifier_process, magnifier_visible,
                   magnifier_status, child_state, child_cmds, seen,
                   write_failed, presses, changes, bursts>>

\* on_closing: the listeners are stopped, stop_magnifier() entered
on_closing ==
    /\ pc["tk"] = "idle"
    /\ tk_job' = "close"
    /\ Goto("tk", "st_check")
    /\ UNCHANGED <<magVars, magnifier_process, magnifier_visible,
                   magnifier_status, restart_timers, restart_timer_set,
                   child_state, child_cmds, was_visible, seen, spawn_result,
                   write_failed, presses, changes, bursts, restarts>>

\* where the Tk thread goes on after stop_magnifier()
AfterStop == IF tk_job = "restart" THEN "rs_start" ELSE "closed"

\* stop_magnifier: if self.magnifier_process:
st_check ==
    /\ pc["tk"] = "st_check"
    /\ Goto("tk", IF magnifier_process = NoChild THEN AfterStop ELSE "st_write")
    /\ UNCHANGED <<magVars, magnifier_process, magnifier_visible,
                   magnifier_status, restart_timers, restart_timer_set,
                   child_state, child_cmds, tk_job, was_visible, seen,
                   spawn_result, write_failed, presses, changes, bursts,
                   restarts>>

\* stop_magnifier: quit is written and flushed; a failure (dead child, or the
\* handle gone meanwhile) goes to the except branch
st_write ==
    /\ pc["tk"] = "st_write"
    /\ IF CanWrite(magnifier_process)
       THEN /\ child_cmds' = [child_cmds EXCEPT ![magnifier_process] =
                                 Append(@, "quit")]
            /\ Goto("tk", "st_wait")
       ELSE /\ Goto("tk", "st_term")
            /\ UNCHANGED child_cmds
    /\ UNCHANGED <<magVars, magnifier_process, magnifier_visible,
                   magnifier_status, restart_timers, restart_timer_set,
                   child_state, tk_job, was_visible, seen, spawn_result,
                   write_failed, presses, changes, bursts, restarts>>

\* stop_magnifier: self.magnifier_process.wait(timeout=1): the child exits
\* within the second, or TimeoutExpired goes to the except branch
st_wait ==
    /\ pc["tk"] = "st_wait"
    /\ IF magnifier_process = NoChild
       THEN Goto("tk", "st_term") /\ UNCHANGED child_state
       ELSE \/ /\ child_state' =
                    [child_state EXCEPT ![magnifier_process] = "exited"]
               /\ Goto("tk", "st_clear")
            \/ /\ child_state[magnifier_process] = "running"
               /\ Goto("tk", "st_term")
               /\ UNCHANGED child_state
    /\ UNCHANGED <<magVars, magnifier_process, magnifier_visible,
                   magnifier_status, restart_timers, restart_timer_set,
                   child_cmds, tk_job, was_visible, seen, spawn_result,
                   write_failed, presses, changes, bursts, restarts>>

\* stop_magnifier: except: self.magnifier_process.terminate(), itself inside
\* try/except: pass
st_term ==
    /\ pc["tk"] = "st_term"
    /\ child_state' =
         IF CanWrite(magnifier_process)
         THEN [child_state EXCEPT ![magnifier_process] = "terminated"]
         ELSE child_state
    /\ Goto("tk", "st_clear")
    /\ UNCHANGED <<magVars, magnifier_process, magnifier_visible,
                   magnifier_status, restart_timers, restart_timer_set,
                   child_cmds, tk_job, was_visible, seen, spawn_result,
                   write_failed, presses, changes, bursts, restarts>>

\* stop_magnifier: self.magnifier_process = None
st_clear ==
    /\ pc["tk"] = "st_clear"
    /\ magnifier_process' = NoChild
    /\ Goto("tk", "st_done")
    /\ UNCHANGED <<magVars, magnifier_visible, magnifier_status, restart_timers,
                   restart_timer_set, child_state, child_cmds, tk_job,
                   was_visible, seen, spawn_result, write_failed, presses,
                   changes, bursts, restarts>>

\* stop_magnifier: self.magnifier_visible = False; _update_magnifier_ui();
\* return
st_done ==
    /\ pc["tk"] = "st_done"
    /\ magnifier_visible' = FALSE
    /\ magnifier_status' = Status(magnifier_process, FALSE)
    /\ Goto("tk", AfterStop)
    /\ UNCHANGED <<magVars, magnifier_process, restart_timers,
                   restart_timer_set, child_state, child_cmds, tk_job,
                   was_visible, seen, spawn_result, write_failed, presses,
                   changes, bursts, restarts>>

\* _restart_magnifier_debounced: start_magnifier(), its first statement
rs_start ==
    /\ pc["tk"] = "rs_start"
    /\ magnifier_visible' = FALSE
    /\ Goto("tk", "rs_popen")
    /\ UNCHANGED <<magVars, magnifier_process, magnifier_status, restart_timers,
                   restart_timer_set, child_state, child_cmds, tk_job,
                   was_visible, seen, spawn_result, write_failed, presses,
                   changes, bursts, restarts>>

\* _restart_magnifier_debounced: the Popen of start_magnifier(), then
\* if was_visible: toggle_magnifier()
rs_popen ==
    /\ pc["tk"] = "rs_popen"
    /\ Popen("tk", IF was_visible THEN "tg_check" ELSE "idle")
    /\ tk_job' = IF was_visible THEN tk_job ELSE "none"
    /\ UNCHANGED <<magVars, magnifier_visible, restart_timers,
                   restart_timer_set, child_cmds, was_visible, seen,
                   write_failed, presses, changes, bursts, restarts>>

\* a child ends by itself (killed, crashed, or end-of-stream on its stdin)
child_exits ==
    /\ \E c \in Children :
         /\ child_state[c] = "running"
         /\ child_state' = [child_state EXCEPT ![c] = "exited"]
    /\ UNCHANGED <<magVars, magnifier_process, magnifier_visible,
                   magnifier_status, restart_timers, restart_timer_set,
                   child_cmds, pc, tk_job, was_visible, seen, spawn_result,
                   write_failed, presses, changes, bursts, restarts>>

----------------------------------------------------------------------------
(* Specifications *)

\* the process before anything was shown, captured or read
InitState ==
    /\ capture_region = NoRegion
    /\ cuda_available = FALSE
    /\ current_fps = target_fps
    /\ frame_times = <<>>
    /\ elapsed = 0
    /\ steady = 0
    /\ running = FALSE
    /\ thr = "idle"
    /\ visible = FALSE
    /\ pixmap = "none"
    /\ lastFrame = "none"
    /\ click_through_applied = FALSE
    /\ uiQueue = <<>>
    /\ uiOp = "none"
    /\ exitReq = FALSE
    /\ inThread = "on"
    /\ inputLog = <<>>
    /\ execLog = <<>>
    /\ ctxLog = <<>>
    /\ timers = <<>>
    /\ ctLog = <<>>
    /\ window = TRUE
    /\ faults = 0

\* CrosshairApp after __init__: no child, nothing pending
InitOwner ==
    /\ magnifier_process = NoChild
    /\ magnifier_visible = FALSE
    /\ magnifier_status = "not_running"
    /\ restart_timers = 0
    /\ restart_timer_set = FALSE
    /\ child_state = [c \in Children |-> "none"]
    /\ child_cmds = [c \in Children |-> <<>>]
    /\ pc = [t \in Threads |-> "idle"]
    /\ tk_job = "none"
    /\ was_visible = FALSE
    /\ seen = [t \in Threads |-> FALSE]
    /\ spawn_result = [t \in Threads |-> "none"]
    /\ write_failed = FALSE
    /\ presses = 0
    /\ changes = 0
    /\ bursts = 0
    /\ restarts = 0

\* the state after load_config and the construction of the window, with the
\* configuration given by the variables
InitCommon ==
    /\ InitOwner
    /\ config_file = NoFile
    /\ geometry = WindowGeometry(monitors, monitor_index, display_size,
                                 offset_x, offset_y)
    /\ ui = "main"
    /\ InitState

\* the [magnifier] section load_config returns without a config.json, apart
\* from target_fps
DefaultConfig ==
    /\ monitor_index = DefaultMonitorIndex
    /\ capture_size = DefaultCaptureSize
    /\ display_size = DefaultDisplaySize
    /\ offset_x = 0
    /\ offset_y = 0
    /\ use_cuda = FALSE

\* the magnifier process in each launch mode, default configuration
Init ==
    /\ mode \in {"ipc", "hotkey", "nohotkey", "overlay"}
    /\ target_fps = DefaultTargetFps
    /\ monitors = TwoMonitors
    /\ DefaultConfig
    /\ InitCommon

Next ==
    \/ MainIpc
    \/ MainShow
    \/ ExitLoop
    \/ ipc_reader
    \/ on_press
    \/ on_press_esc_end
    \/ ThreadBegin
    \/ LoopCheck
    \/ Iterate(QuietDurations, Pixels)
    \/ Pace
    \/ on_frame
    \/ show_magnifier
    \/ hide_magnifier
    \/ toggle
    \/ StopJoined
    \/ StopTimedOut
    \/ set_click_through
    \/ apply_click_through_style
    \/ MainOverlay
    \/ overlay_call
    \/ overlay_close
    \/ overlay_no_window

Spec == Init /\ [][Next]_vars

\* the window inside a host application (MagnifierOverlay), which calls
\* toggle_visibility, show, hide and close in any order, on a system where
\* every iteration takes 40 ms
InitOverlay ==
    /\ mode = "overlay"
    /\ target_fps = DefaultTargetFps
    /\ monitors = TwoMonitors
    /\ DefaultConfig
    /\ InitCommon

NextOverlay ==
    \/ MainOverlay
    \/ overlay_call
    \/ overlay_close
    \/ overlay_no_window
    \/ ThreadBegin
    \/ LoopCheck
    \/ Iterate(SteadyDurations, Pixels)
    \/ Pace
    \/ on_frame
    \/ show_magnifier
    \/ hide_magnifier
    \/ toggle
    \/ StopJoined
    \/ StopTimedOut
    \/ set_click_through
    \/ apply_click_through_style

SpecOverlay == InitOverlay /\ [][NextOverlay]_vars

\* the same host on an idle system: every iteration takes 10 ms
NextOverlayIdle ==
    \/ MainOverlay
    \/ overlay_call
    \/ overlay_close
    \/ overlay_no_window
    \/ ThreadBegin
    \/ LoopCheck
    \/ Iterate(IdleDurations, Pixels)
    \/ Pace
    \/ on_frame
    \/ show_magnifier
    \/ hide_magnifier
    \/ toggle
    \/ StopJoined
    \/ StopTimedOut
    \/ set_click_through
    \/ apply_click_through_style

SpecOverlayIdle == InitOverlay /\ [][NextOverlayIdle]_vars

\* the --ipc launch alone, on an idle system
InitIpc ==
    /\ mode = "ipc"
    /\ target_fps = DefaultTargetFps
    /\ monitors = TwoMonitors
    /\ DefaultConfig
    /\ InitCommon

NextIpc ==
    \/ MainIpc
    \/ ExitLoop
    \/ ipc_reader
    \/ ThreadBegin
    \/ LoopCheck
    \/ Iterate(IdleDurations, Pixels)
    \/ Pace
    \/ on_frame
    \/ show_magnifier
    \/ hide_magnifier
    \/ StopJoined
    \/ StopTimedOut
    \/ set_click_through
    \/ apply_click_through_style

SpecIpc == InitIpc /\ [][NextIpc]_vars

\* the --no-hotkey launch from the start of the process, over every
\* config.json
InitConfig ==
    /\ mode = "nohotkey"
    /\ monitors = TwoMonitors
    /\ config_file \in ConfigFiles
    /\ target_fps = DefaultTargetFps
    /\ DefaultConfig
    /\ geometry = NoGeometry
    /\ ui = "boot"
    /\ InitState
    /\ InitOwner

NextConfig ==
    \/ load_config
    \/ MainShow
    \/ ThreadBegin
    \/ LoopCheck
    \/ Iterate(SteadyDurations, Pixels)
    \/ Pace
    \/ on_frame

SpecConfig == InitConfig /\ [][NextConfig]_vars

\* the owner: the Tk thread and the listener thread over its children
InitOwnerSpec ==
    /\ mode = "ipc"
    /\ target_fps = DefaultTargetFps
    /\ monitors = TwoMonitors
    /\ DefaultConfig
    /\ InitCommon

NextOwner ==
    \/ key_press
    \/ \E t \in Threads : tg_check(t)
    \/ \E t \in Threads : tg_popen(t)
    \/ \E t \in Threads : tg_recheck(t)
    \/ \E t \in Threads : tg_write(t)
    \/ \E t \in Threads : tg_set(t)
    \/ \E t \in Threads : tg_except(t)
    \/ on_magnifier_change
    \/ restart_fires
    \/ on_closing
    \/ st_check
    \/ st_write
    \/ st_wait
    \/ st_term
    \/ st_clear
    \/ st_done
    \/ rs_start
    \/ rs_popen
    \/ child_exits

SpecOwner == InitOwnerSpec /\ [][NextOwner]_vars

\* the owner on the runs where the hotkey is never handled while the Tk
\* thread is inside a handler, nor a handler run while it is
NextOwnerSeq ==
    /\ NextOwner
    /\ pc'["tk"] \in {"idle", "closed"} \/ pc'["listener"] = "idle"

SpecOwnerSeq == InitOwnerSpec /\ [][NextOwnerSeq]_vars

\* the same launch with iterations of the loop that raise
NextFault == NextIpc \/ iteration_error

SpecFault == InitIpc /\ [][NextFault]_vars

\* the same launch with the main thread and the capture thread scheduled
\* fairly; what arrives on stdin, and when, is left to the owner
IpcUiStep ==
    \/ MainIpc
    \/ ExitLoop
    \/ on_frame
    \/ show_magnifier
    \/ hide_magnifier
    \/ StopJoined
    \/ StopTimedOut
    \/ set_click_through
    \/ apply_click_through_style

IpcCaptureStep ==
    \/ ThreadBegin
    \/ LoopCheck
    \/ Iterate(IdleDurations, Pixels)
    \/ Pace

NextIpcFair == IpcUiStep \/ IpcCaptureStep \/ ipc_reader

SpecIpcFair ==
    /\ InitIpc
    /\ [][NextIpcFair]_vars
    /\ WF_vars(IpcUiStep)
    /\ WF_vars(IpcCaptureStep)

\* the FPS controller under every load: the --no-hotkey launch
InitFps ==
    /\ mode = "nohotkey"
    /\ target_fps \in TargetFpsValues
    /\ monitors = TwoMonitors
    /\ DefaultConfig
    /\ InitCommon

NextFps ==
    \/ MainShow
    \/ ThreadBegin
    \/ LoopCheck
    \/ Iterate(Durations, Pixels)
    \/ Pace
    \/ on_frame

SpecFps == InitFps /\ [][NextFps]_vars

\* the FPS controller with targets 17 and 120
InitAdapt ==
    /\ mode = "nohotkey"
    /\ target_fps \in AdaptTargetFpsValues
    /\ monitors = TwoMonitors
    /\ DefaultConfig
    /\ InitCommon

NextAdapt ==
    \/ MainShow
    \/ ThreadBegin
    \/ LoopCheck
    \/ Iterate(AdaptDurations, Pixels)
    \/ Pace
    \/ on_frame

SpecAdapt == InitAdapt /\ [][NextAdapt]_vars

\* the same launch with the default target, the capture thread and the event
\* loop both scheduled fairly
InitFpsFair ==
    /\ mode = "nohotkey"
    /\ target_fps = DefaultTargetFps
    /\ monitors = TwoMonitors
    /\ DefaultConfig
    /\ InitCommon

CaptureStep ==
    \/ ThreadBegin
    \/ LoopCheck
    \/ Iterate(RecoveryDurations, Pixels)
    \/ Pace

UiStep ==
    \/ MainShow
    \/ on_frame

NextFpsFair == CaptureStep \/ UiStep

SpecFpsFair ==
    /\ InitFpsFair
    /\ [][NextFpsFair]_vars
    /\ WF_vars(CaptureStep)
    /\ WF_vars(UiStep)

\* on_frame over all it can be handed: the --no-hotkey launch with frames of
\* two contents and null frames
InitOnFrame ==
    /\ mode = "nohotkey"
    /\ target_fps = DefaultTargetFps
    /\ monitors = TwoMonitors
    /\ DefaultConfig
    /\ InitCommon

NextOnFrame ==
    \/ MainShow
    \/ ThreadBegin
    \/ LoopCheck
    \/ Iterate(SteadyDurations, AnyImages)
    \/ Pace
    \/ on_frame

SpecOnFrame == InitOnFrame /\ [][NextOnFrame]_vars

\* the capture loop under every configuration of monitor, sizes and GPU use:
\* the --no-hotkey launch
InitFrame ==
    /\ mode = "nohotkey"
    /\ target_fps = DefaultTargetFps
    /\ monitors \in MonitorLayouts
    /\ monitor_index \in MonitorIndexValues
    /\ capture_size \in CaptureSizes
    /\ display_size \in DisplaySizes
    /\ offset_x \in OffsetXValues
    /\ offset_y \in OffsetYValues
    /\ use_cuda \in BOOLEAN
    /\ InitCommon

NextFrame ==
    \/ MainShow
    \/ ThreadBegin
    \/ LoopCheck
    \/ Iterate(SteadyDurations, Pixels)
    \/ Pace
    \/ on_frame

SpecFrame == InitFrame /\ [][NextFrame]_vars

----------------------------------------------------------------------------
(* Properties of the FPS controller *)

\* _adapt_fps has been called at least once
Adapted == frame_times # <<>>

\* the last evaluation is complete (run() is not between measuring and pacing)
Paced == thr # "pace"

\* C1 as stated: for every target_fps, after any call of _adapt_fps,
\* 15 <= current_fps <= target_fps.
C1_Original ==
    Adapted => (MinFps <= current_fps /\ current_fps <= target_fps)

\* C1, amended: for every target_fps >= 15, current_fps stays within
\* [15, target_fps] in every state, before and after every call of _adapt_fps.
C1_FpsWithinBounds ==
    target_fps >= MinFps => (MinFps <= current_fps /\ current_fps <= target_fps)

\* the floor has clamped a decrease (18 - 5 would be 13)
C1_Witness ==
    /\ target_fps = 58
    /\ Adapted
    /\ current_fps = MinFps

\* iteration durations below 1/50 s
HeadroomDurations == {d \in 0..MsPerSecond : d * FastRate < MsPerSecond}

\* C9 as stated: once current_fps < target_fps and every iteration from then on
\* has headroom (duration < 1/50 s), current_fps eventually equals target_fps.
\* That is: if from some point on every iteration has headroom, then
\* current_fps = target_fps holds again and again.
C9_Recovery ==
    <>[](elapsed \in HeadroomDurations) => []<>(current_fps = target_fps)

\* C10 as stated: target_fps = 60 and every iteration lasting 40 ms: after n
\* iterations current_fps = max(15, 60 - 5n), so it reaches 15 and stays there.
C10_Original ==
    (target_fps = DefaultTargetFps /\ steady >= 0 /\ Paced)
        => current_fps = Max(MinFps, DefaultTargetFps - FpsStep * steady)

\* C10, amended: target_fps = 60 and every iteration lasting 40 ms: current_fps
\* is 55 after the first evaluation and falls by 5 at each following overrun
\* down to 20, where 40 ms no longer overruns 1/current_fps; it stays at 20.
C10_SettlesAt20 ==
    (target_fps = DefaultTargetFps /\ steady >= 0 /\ Paced)
        => current_fps = Max(20, DefaultTargetFps - FpsStep * steady)

\* ten 40 ms iterations done: eight overruns recorded, two iterations in time
C10_Witness ==
    /\ target_fps = DefaultTargetFps
    /\ steady = 10
    /\ Paced
    /\ current_fps = 20
    /\ Len(frame_times) = 8

----------------------------------------------------------------------------
(* Properties of the window and the capture loop *)

\* the capture loop will go on executing iterations: it is about to begin, or
\* it is running with its flag set
LoopGoing == thr = "starting" \/ (IsRunning(thr) /\ running)

Last(s) == s[Len(s)]
Range(s) == {s[i] : i \in 1..Len(s)}

\* the event loop hands the next queued frame to on_frame in this step
FrameDelivered ==
    /\ uiQueue # <<>>
    /\ Head(uiQueue).ev = "frame"
    /\ uiQueue' = Tail(uiQueue)

\* C2 as stated: a show_magnifier that directly follows a show_magnifier
\* leaves the window Visible and the capture loop Running.
C2_ShowTwice ==
    [][(/\ execLog # <<>>
        /\ Last(execLog).op = "show"
        /\ execLog' = Append(execLog, Op("show")))
          => (visible' /\ LoopGoing')]_vars

\* C3 as stated: after two toggles in a row, the first on a Hidden window,
\* have returned, the window is Hidden and the capture loop is stopped.
C3_ToggleTwice ==
    LET n == Len(execLog)
    IN  (/\ ui = "loop"
         /\ "esc" \notin Range(inputLog)
         /\ n >= 2
         /\ execLog[n].op = "toggle"
         /\ execLog[n - 1] = [op |-> "toggle", was |-> FALSE])
          => (~visible /\ ~LoopGoing)

\* C4 as stated: when the process has exited after reading show, hide, quit,
\* the window was made Visible by show and then Hidden by hide.
C4_ShowHideQuit ==
    (mode = "ipc" /\ inputLog = <<"show", "hide", "quit">> /\ ui = "exited")
        => /\ execLog = <<[op |-> "show", was |-> FALSE],
                          [op |-> "hide", was |-> TRUE]>>
           /\ ~visible

\* C5 as stated: once hide_magnifier has returned with the window Hidden (here
\* even with the capture thread finished), no frame is delivered to on_frame.
C5_NoFrameAfterHide ==
    [][~(/\ FrameDelivered
         /\ ui = "loop"
         /\ ~visible
         /\ ~IsRunning(thr)
         /\ execLog # <<>>
         /\ Last(execLog) = [op |-> "hide", was |-> TRUE])]_vars

\* C6 as stated: whenever hide_magnifier or toggle has returned leaving the
\* window Hidden, the capture loop is not going on.
C6_LoopOnlyWhileVisible ==
    (/\ ui = "loop"
     /\ "esc" \notin Range(inputLog)
     /\ execLog # <<>>
     /\ ~visible)
        => ~LoopGoing

\* C7 as stated: a show_magnifier that turns the Hidden window Visible leaves
\* the capture loop running.
C7_ShowStartsLoop ==
    [][execLog' = Append(execLog, [op |-> "show", was |-> FALSE])
          => LoopGoing']_vars

\* C8 as stated: while stop() waits for the thread, the loop's next test of
\* the running flag ends the loop.
C8_StopEndsLoop ==
    [][(ui = "wait" /\ thr = "top" /\ thr' # "top") => thr' = "idle"]_vars

----------------------------------------------------------------------------
(* Properties of the monitor choice and of the frames *)

\* the configured index is beyond the list of monitors
BeyondList == monitor_index >= Len(monitors)

\* run() of a loop instance has set up its capture region
RegionSet == thr \in {"top", "iter", "pace"}

\* C11: with a monitor index beyond the list of monitors the window is where
\* index 1 would put it and the loop captures the region index 1 would give;
\* under every index the window and the loop are on one and the same monitor,
\* and run() gets past its set-up.
C11_MonitorFallback ==
    /\ BeyondList =>
          /\ geometry = WindowGeometry(monitors, DefaultMonitorIndex,
                                       display_size, offset_x, offset_y)
          /\ RegionSet =>
                capture_region = CaptureRegion(monitors, DefaultMonitorIndex,
                                               capture_size)
    /\ RegionSet =>
          \E i \in 1..Len(monitors) :
             /\ geometry = GeometryOn(monitors[i], display_size,
                                      offset_x, offset_y)
             /\ capture_region = RegionOn(monitors[i], capture_size)

\* index 99 with two monitors: the loop captures on the first monitor and a
\* frame of it has been shown
C11_Witness ==
    /\ monitors = TwoMonitors
    /\ monitor_index = 99
    /\ capture_size = DefaultCaptureSize
    /\ capture_region = [left |-> 885, top |-> 465, width |-> 150, height |-> 150]
    /\ geometry.x = 960 - display_size \div 2
    /\ pixmap # "none"

\* C12: with GPU mode active every iteration emits its frame, resized by the
\* GPU or, when the GPU path raised, by the CPU in the except branch; the
\* loop goes on to pace the iteration and GPU mode stays active.
C12_GpuFallback ==
    [][(thr = "iter" /\ thr' # "iter" /\ cuda_available) =>
          /\ thr' = "pace"
          /\ cuda_available'
          /\ Len(uiQueue') = Len(uiQueue) + 1
          /\ uiQueue'[Len(uiQueue')].ev = "frame"
          /\ uiQueue'[Len(uiQueue')].via \in {"gpu", "cpu_fallback"}]_vars

\* a frame resized on the CPU after the GPU path raised, and behind it the
\* next frame, resized by the GPU
C12_Witness ==
    /\ cuda_available
    /\ Len(uiQueue) = 2
    /\ uiQueue[1].via = "cpu_fallback"
    /\ uiQueue[2].via = "gpu"

\* C13: every frame emitted by the loop is display_size wide and display_size
\* high, for every capture_size and on each of the three resize paths.
C13_FrameDimensions ==
    \A i \in 1..Len(uiQueue) :
        uiQueue[i].ev = "frame" =>
            (uiQueue[i].w = display_size /\ uiQueue[i].h = display_size)

\* a 301 x 301 capture scaled down to 201 x 201 on the CPU fallback path
C13_Witness ==
    /\ capture_size = 301
    /\ display_size = 201
    /\ uiQueue # <<>>
    /\ uiQueue[1].via = "cpu_fallback"
    /\ uiQueue[1].w = 201
    /\ uiQueue[1].h = 201

----------------------------------------------------------------------------
(* Properties of the window operations *)

\* a show_magnifier has turned the Hidden window Visible
ShownByShow ==
    \E i \in 1..Len(execLog) : execLog[i] = [op |-> "show", was |-> FALSE]

\* the single shots pending after the click-through events in log
PendingAfter(log) ==
    IF Len(log) = 1 THEN <<"_set_click_through">>
    ELSE IF Len(log) = 2 THEN <<"_apply_click_through_style">>
    ELSE <<>>

\* C14: over any sequence of shows and hides, the click-through application
\* is scheduled once, by the first show_magnifier that turns the window
\* Visible, and by no later one; once it has run, one reapplication of the
\* style is pending or has run, and nothing more.
C14_ClickThroughOnce ==
    /\ ctLog \in {<<>>, <<"scheduled">>, <<"scheduled", "applied">>,
                   <<"scheduled", "applied", "reapplied">>}
    /\ (ctLog # <<>>) <=> ShownByShow
    /\ click_through_applied <=> ShownByShow
    /\ timers = PendingAfter(ctLog)

\* shown, hidden and shown again, with the styling applied and reapplied
C14_Witness ==
    /\ execLog = <<[op |-> "show", was |-> FALSE],
                   [op |-> "hide", was |-> TRUE],
                   [op |-> "show", was |-> FALSE]>>
    /\ ui = "loop"
    /\ visible
    /\ ctLog = <<"scheduled", "applied", "reapplied">>
    /\ timers = <<>>

\* C15 as stated: every step that turns the Hidden window Visible leaves the
\* capture loop going and the click-through application scheduled.
C15_EveryShowSchedules ==
    [][(~visible /\ visible') => (LoopGoing' /\ ctLog' # <<>>)]_vars

\* C16 as stated: a hide_magnifier that finds the window Hidden changes
\* neither visibility nor running flag nor thread state; one that found it
\* Visible returns with the loop stopped and the window Hidden.
C16_HideEffect ==
    [][/\ (execLog' = Append(execLog, [op |-> "hide", was |-> FALSE]))
            => UNCHANGED <<visible, running, thr>>
       /\ (ui = "wait" /\ uiOp = "hide" /\ ui' = "loop")
            => (~visible' /\ ~LoopGoing')]_vars

C18_CloseIdempotent ==
    [][/\ (ui = "wait" /\ uiOp = "overlay_close" /\ ui' = "loop")
            => (~visible' /\ ~LoopGoing')
       /\ (/\ ~window
           /\ uiQueue # <<>>
           /\ Head(uiQueue).ev = "overlay_close"
           /\ uiQueue' = Tail(uiQueue))
            => UNCHANGED <<visible, running, thr, window, logVars>>]_vars

\* the names of the window operations begun, in order
OpsOf(log) == [i \in 1..Len(log) |-> log[i].op]

\* the slot invocations queued, in order
RECURSIVE SlotsOf(_)
SlotsOf(queue) ==
    IF queue = <<>> THEN <<>>
    ELSE IF Head(queue).ev = "frame" THEN SlotsOf(Tail(queue))
    ELSE <<Head(queue).ev>> \o SlotsOf(Tail(queue))

\* the show and hide lines read, in order
RECURSIVE ShowHideOf(_)
ShowHideOf(log) ==
    IF log = <<>> THEN <<>>
    ELSE IF Head(log) \in {"show", "hide"}
         THEN <<Head(log)>> \o ShowHideOf(Tail(log))
         ELSE ShowHideOf(Tail(log))

\* C19: in IPC mode every show_magnifier and hide_magnifier is executed on
\* the UI thread, and the invocations executed so far followed by those still
\* queued are exactly the show and hide lines read, one each, in reading order.
C19_IpcDispatch ==
    mode = "ipc" =>
        /\ \A i \in 1..Len(ctxLog) : ctxLog[i] = "ui"
        /\ OpsOf(execLog) \o SlotsOf(uiQueue) = ShowHideOf(inputLog)

\* show, hide, show read; show and hide executed, the second show queued
\* behind a frame
C19_Witness ==
    /\ mode = "ipc"
    /\ inputLog = <<"show", "hide", "show">>
    /\ OpsOf(execLog) = <<"show", "hide">>
    /\ Len(uiQueue) = 2
    /\ uiQueue[1].ev = "frame"
    /\ uiQueue[2].ev = "show"

\* C20 as stated: every window operation is executed on the UI thread, in
\* every launch mode.
C20_UiConfinement ==
    \A i \in 1..Len(ctxLog) : ctxLog[i] = "ui"

----------------------------------------------------------------------------
(* Properties of the frame queue, the exit and the window position *)

\* the frames emitted and not yet handed to on_frame
RECURSIVE FramesIn(_)
FramesIn(queue) ==
    IF queue = <<>> THEN 0
    ELSE (IF Head(queue).ev = "frame" THEN 1 ELSE 0) + FramesIn(Tail(queue))

\* C21 as stated: at any time at most one emitted frame is waiting
\* undelivered.
C21_QueueDepthOne == FramesIn(uiQueue) <= 1

\* the reader has read quit, an empty line or end-of-stream
QuitRead == inputLog # <<>> /\ Last(inputLog) \in {"quit", ""}

\* the process has ended
Exited == ui = "exited"

\* C22 as stated: once the reader has read quit, an empty line or
\* end-of-stream, the process eventually exits, whatever the window is doing.
C22_QuitLeadsToExit == QuitRead ~> Exited

\* the half of C22 about the reader: after that line nothing more is read
C22_ReaderStops == [][QuitRead => inputLog' = inputLog]_vars

\* C28 as stated, its first half: an error raised inside an iteration ends
\* the loop and nothing else; the process keeps running and the window stays
\* as it was, with the frame it shows and the frames already queued.
C28_ErrorEndsLoopOnly ==
    [][faults' # faults =>
          /\ thr' = "idle"
          /\ Alive'
          /\ UNCHANGED <<visible, pixmap, uiQueue>>]_vars

\* the configuration the window and the capture thread were constructed with
Loaded ==
    [capture_size  |-> capture_size,
     display_size  |-> display_size,
     target_fps    |-> target_fps,
     offset_x      |-> offset_x,
     offset_y      |-> offset_y,
     use_cuda      |-> use_cuda,
     monitor_index |-> monitor_index]

\* C27: whatever config.json is, the configuration is loaded: every field
\* the file's magnifier section holds has the file's value, and every other
\* field, or every field when the file is missing, unreadable, unparseable
\* or without a magnifier section, has its built-in default.
C27_LoadConfig ==
    ui # "boot" =>
        \A f \in FieldNames :
            Loaded[f] = IF config_file.kind = "section"
                           /\ f \in config_file.fields
                        THEN FileValue[f]
                        ELSE DefaultSection[f]

\* a section with capture_size and offset_x only, loaded and in use
C27_Witness ==
    /\ config_file = [kind |-> "section",
                      fields |-> {"capture_size", "offset_x"}]
    /\ capture_size = 301
    /\ offset_x = 7
    /\ display_size = DefaultDisplaySize
    /\ monitor_index = DefaultMonitorIndex
    /\ ui = "loop"
    /\ pixmap # "none"

\* the monitor the window and the loop resolve
Mon == ResolveMonitor(monitors, monitor_index)

\* C30: the centre of the window, (x + display_size div 2, y + display_size
\* div 2), is the centre of the resolved monitor, (left + width div 2, top +
\* height div 2), moved by (offset_x, offset_y).
C30_WindowCentre ==
    /\ geometry.x + display_size \div 2
          = Mon.left + Mon.width \div 2 + offset_x
    /\ geometry.y + display_size \div 2
          = Mon.top + Mon.height \div 2 + offset_y
    /\ geometry.width = display_size
    /\ geometry.height = display_size

\* a 201 x 201 window on the second monitor, moved by (7, -3), showing frames
C30_Witness ==
    /\ monitors = TwoMonitors
    /\ monitor_index = 2
    /\ display_size = 201
    /\ offset_x = 7
    /\ offset_y = -3
    /\ geometry = [x |-> -733, y |-> 437, width |-> 201, height |-> 201]
    /\ visible
    /\ pixmap # "none"

----------------------------------------------------------------------------
(* Properties of the owner of the magnifier process *)

\* no thread is inside toggle_magnifier, stop_magnifier or the restart
Quiet == \A t \in Threads : pc[t] \in {"idle", "closed"}

\* the show and hide commands written to child c, in order
Toggles(c) == SelectSeq(child_cmds[c], LAMBDA x : x \in {"show", "hide"})

\* show first, then hide and show in turn
Alternates(seq) ==
    \A i \in 1..Len(seq) : seq[i] = IF i % 2 = 1 THEN "show" ELSE "hide"

\* the owner's belief agrees with the last command its child was sent
Mirrors ==
    magnifier_visible <=>
        /\ child_cmds[magnifier_process] # <<>>
        /\ Last(child_cmds[magnifier_process]) = "show"

\* C23 as stated: between calls, while a child handle is held,
\* magnifier_visible is true exactly when the last command written to that
\* child was show; and every child is sent show first, then hide and show in
\* strict alternation.
C23_VisibleMirrorsChild ==
    /\ (Quiet /\ magnifier_process # NoChild) => Mirrors
    /\ \A c \in Children : Alternates(Toggles(c))

\* thread t takes the step that leaves position p
Leaves(t, p) == pc[t] = p /\ pc'[t] # p

\* what the owner holds about its child, and the children themselves
ownerState == <<magnifier_process, magnifier_visible, magnifier_status,
                child_state, child_cmds>>

\* C24 as stated: stop_magnifier() with a child writes quit to it, or
\* terminates it when the write or the wait failed, and in every outcome
\* returns with no handle held and magnifier_visible false; with no child it
\* changes nothing.
C24_StopMagnifier ==
    [][/\ (Leaves("tk", "st_write") /\ CanWrite(magnifier_process))
            => /\ child_cmds'[magnifier_process]
                     = Append(child_cmds[magnifier_process], "quit")
               /\ pc'["tk"] = "st_wait"
       /\ (Leaves("tk", "st_term") /\ magnifier_process # NoChild)
            => child_state'[magnifier_process] # "running"
       /\ Leaves("tk", "st_done")
            => /\ magnifier_process' = NoChild
               /\ magnifier_visible' = FALSE
               /\ magnifier_status' = "not_running"
       /\ (Leaves("tk", "st_check") /\ magnifier_process = NoChild)
            => UNCHANGED ownerState]_vars

\* C25 as stated: a failed spawn leaves no handle and the status not
\* running; the toggle that met it returns without writing a command and
\* with magnifier_visible false; a toggle that finds no handle spawns.
C25_SpawnFailure ==
    [][\A t \in Threads :
          /\ (spawn_result'[t] = "failed" /\ spawn_result[t] # "failed")
               => /\ magnifier_process' = NoChild
                  /\ magnifier_status' = "not_running"
          /\ (Leaves(t, "tg_recheck") /\ spawn_result[t] = "failed")
               => /\ pc'[t] = "idle"
                  /\ magnifier_visible' = FALSE
                  /\ child_cmds' = child_cmds
          /\ (Leaves(t, "tg_check") /\ magnifier_process = NoChild)
               => pc'[t] = "tg_popen"]_vars

C29_DebouncedRestart ==
    /\ [](restart_timers <= 1)
    /\ [](restarts <= bursts)
    /\ [](restart_timers = 0 => restarts = bursts)
    /\ [][/\ (changes' # changes)
               => /\ child_state' = child_state
                  /\ pc' = pc
                  /\ \/ magnifier_process # NoChild
                     \/ restart_timers' = restart_timers
          /\ (restarts' # restarts)
               => pc'["tk"] = IF magnifier_process = NoChild
                              THEN "idle" ELSE "st_check"
          /\ (tk_job = "restart" /\ tk_job' = "none" /\ was_visible
                /\ magnifier_process' # NoChild)
               => /\ magnifier_visible'
                  /\ child_cmds'[magnifier_process'] # <<>>
                  /\ Last(child_cmds'[magnifier_process']) = "show"]_vars

----------------------------------------------------------------------------
(* Properties of the capture region and the FPS controller *)

\* C31 as stated: once run() has set it up, the capture region is a
\* capture_size square whose centre (left + capture_size div 2, top +
\* capture_size div 2) is the centre of the resolved monitor (left + width
\* div 2, top + height div 2).
C31_RegionCentre ==
    capture_region # NoRegion =>
        /\ capture_region.width = capture_size
        /\ capture_region.height = capture_size
        /\ capture_region.left + capture_size \div 2
              = Mon.left + Mon.width \div 2
        /\ capture_region.top + capture_size \div 2
              = Mon.top + Mon.height \div 2

\* the iteration just measured overran: not elapsed < 1 / current_fps
Overran == elapsed * current_fps >= MsPerSecond

\* the step of run() that sleeps or calls _adapt_fps
PaceStep == thr = "pace" /\ thr' = "top"

\* C32: current_fps and the sliding window change only in the FPS control
\* of an iteration that overran; then current_fps becomes max(15, current_fps
\* - 5) when the mean of the window exceeds 1/30 s, min(target_fps,
\* current_fps + 5) when the mean is below 1/50 s and current_fps <
\* target_fps, and stays as it is otherwise.
C32_FpsChange ==
    [][/\ (current_fps' # current_fps \/ frame_times' # frame_times)
            => (PaceStep /\ Overran)
       /\ (PaceStep /\ Overran)
            => current_fps' =
                 IF Sum(frame_times') * SlowRate
                      > MsPerSecond * Len(frame_times')
                 THEN Max(MinFps, current_fps - FpsStep)
                 ELSE IF /\ Sum(frame_times') * FastRate
                              < MsPerSecond * Len(frame_times')
                         /\ current_fps < target_fps
                 THEN Min(target_fps, current_fps + FpsStep)
                 ELSE current_fps]_vars

\* target 120: a 70 ms overrun and the 10 ms one after it lowered current_fps
\* to 110, four 10 ms overruns left the mean in the band, the next took it
\* below 1/50 s and current_fps rose to 115
C32_Witness ==
    /\ target_fps = 120
    /\ frame_times = <<70, 10, 10, 10, 10, 10, 10>>
    /\ current_fps = 115
    /\ Paced

\* C33: the sliding window never holds more than 10 durations, and each
\* overrun is appended at its end, the oldest entry leaving when there were
\* 10 already, so that the window is the most recent overruns in arrival
\* order.
C33_SlidingWindow ==
    /\ [](Len(frame_times) <= MaxFrameTimes)
    /\ [][(PaceStep /\ Overran)
            => frame_times' =
                 IF Len(frame_times) < MaxFrameTimes
                 THEN Append(frame_times, elapsed)
                 ELSE Append(Tail(frame_times), elapsed)]_vars

\* current_fps after the overruns in times, were they all there have been
RECURSIVE Replay(_, _, _)
Replay(cur, target, times) ==
    IF times = <<>> THEN cur
    ELSE LET n == Len(times)
             before == Replay(cur, target, SubSeq(times, 1, n - 1))
         IN  AdaptedFps(before, target, times)

\* a full window that is not the whole history: current_fps is not what the
\* ten overruns in it alone would have made it, and the newest is a 10 ms one
\* behind older 70 ms ones
C33_Witness ==
    /\ target_fps = 120
    /\ Len(frame_times) = MaxFrameTimes
    /\ frame_times[1] = 70
    /\ frame_times[MaxFrameTimes] = 10
    /\ current_fps # Replay(target_fps, target_fps, frame_times)
    /\ Paced

----------------------------------------------------------------------------
(* Properties of the thread object across show, hide, toggle and close *)

\* an execution of run() begins in this step
LoopBegins == thr' = "starting" /\ thr # "starting"

\* C34: the window's one thread object executes run() at most once at a time:
\* an execution of the capture loop begins only when none exists, so a start
\* made while the previous execution has not finished begins no second one.
C34_OneLoopExecution ==
    [][LoopBegins => ~IsRunning(thr)]_vars

\* toggle has shown the window and called start() while the execution that a
\* timed-out stop() left behind has not finished
C34_Witness ==
    /\ execLog # <<>>
    /\ Last(execLog) = [op |-> "toggle", was |-> FALSE]
    /\ visible
    /\ ~running
    /\ thr \in {"top", "iter", "pace"}

----------------------------------------------------------------------------
(* Properties of the owner's handle and visibility flag *)

\* the children the owner has spawned and neither told to quit nor terminated,
\* and that have not ended by themselves
Unstopped ==
    {c \in Children : /\ child_state[c] = "running"
                      /\ "quit" \notin Range(child_cmds[c])}

\* C35 as stated: the owner has at most one spawned child it has not stopped,
\* and that child is the one whose handle it holds: no spawned child's handle
\* is overwritten or dropped while the child runs.
C35_OneChild ==
    /\ Cardinality(Unstopped) <= 1
    /\ \A c \in Unstopped : magnifier_process = c

\* C36 as stated: whenever the owner holds no child handle and no handler is
\* under way, magnifier_visible is false.
C36_NoChildNotVisible ==
    (Quiet /\ magnifier_process = NoChild) => ~magnifier_visible

----------------------------------------------------------------------------
(* Properties of the controller state across runs, and of the IPC reader *)

\* the window was hidden and then shown again, in this order
HiddenThenShown ==
    \E i, j \in 1..Len(execLog) :
        /\ i < j
        /\ execLog[i] = [op |-> "hide", was |-> TRUE]
        /\ execLog[j] = [op |-> "show", was |-> FALSE]

\* C37: current_fps and the sliding window belong to the thread object: only
\* the controller step of an overrun iteration changes them, so the start of
\* a run after hide and show resets neither, and show_magnifier,
\* hide_magnifier, toggle, close and on_frame leave them as they are.
C37_ControllerKept ==
    [][/\ (thr = "starting" /\ thr' = "top") => UNCHANGED fpsVars
       /\ (execLog' # execLog \/ ui' # ui \/ FrameDelivered)
            => UNCHANGED fpsVars
       /\ ~UNCHANGED fpsVars => (PaceStep /\ Overran)]_vars

\* the loop runs again after a hide and a show, with the lowered rate and the
\* window that an overrun before the hide left
C37_Witness ==
    /\ HiddenThenShown
    /\ Last(execLog).op = "show"
    /\ thr = "top"
    /\ running
    /\ visible
    /\ current_fps < target_fps
    /\ frame_times # <<>>

\* ipc_reader has read a line in this step that, stripped, is not empty and is
\* none of show, hide and quit
OtherLineRead ==
    /\ mode = "ipc"
    /\ inputLog' # inputLog
    /\ Last(inputLog') \notin {"show", "hide", "quit", "", BadLine}

\* C38: a line that the reader holds as non-empty and other than show, hide
\* and quit is ignored: nothing is dispatched, the window, the capture loop
\* and the event loop stay as they are, no exit is requested, and the reader
\* stays in its loop for the next line.
C38_OtherLineIgnored ==
    [][OtherLineRead =>
          /\ UNCHANGED <<uiQueue, exitReq, execLog, ctxLog>>
          /\ UNCHANGED <<visible, running, thr, fpsVars, ui, uiOp>>
          /\ inThread = "on"
          /\ inThread' = "on"]_vars

\* the reader went on after such a line: the show that followed it was
\* dispatched and has made the window visible
C38_Witness ==
    /\ mode = "ipc"
    /\ Len(inputLog) >= 2
    /\ inputLog[1] = "zoom"
    /\ inputLog[2] = "show"
    /\ visible
    /\ Alive

\* C39 as stated: when the process has left its event loop and exited, the
\* capture loop has been stopped: no execution of run() exists.
C39_StoppedBeforeExit ==
    (mode = "ipc" /\ Exited) => ~IsRunning(thr)

====
